---- MODULE Spec2Model ----
(***************************************************************************)
(* A model of espargos.CSIBacklog (src/espargos/backlog.py): a fixed-size  *)
(* ring buffer of CSI frames that is written by the backlog thread through *)
(* the pool callback onNewCSI and read, without any lock, by the snapshot  *)
(* accessors get_ht40 / get_rssi / get_timestamps.                         *)
(*                                                                         *)
(* Python values are modelled as follows.  None is the empty sequence and  *)
(* a present value v is <<v>>.  A numpy array indexed 0..size-1 is a       *)
(* sequence indexed 1..size (slot i of the code is element i+1).  The      *)
(* tensors of one frame (CSI, RSSI) are copied as a whole by the code and  *)
(* are modelled by one number each; np.zeros gives 0.                      *)
(***************************************************************************)
EXTENDS Integers, Sequences, FiniteSets, TLC

\* ---------------------------------------------------------------- bounds
MaxSize == 3
MaxFrames == 4
MaxCallbacks == 2
MaxThreads == 2
\* Bounds of the specifications with subscribers, with a reader, with several start() calls
MaxNotifySize == 2
MaxNotifyFrames == 2
MaxReaderFrames == 3
MaxLifecycleFrames == 2
MaxLifecycleSize == 2

MaxStopSize == 2
MaxStopFrames == 2
Threads == 1..MaxThreads
CallbackIds == {1, 2}
\* Source MAC addresses of the frames the pool delivers, as character strings.
Macs == {<<"A", "A">>, <<"B", "A">>}
\* Filter patterns an application installs: literal characters and the wildcard ".".
Patterns == {<<"A">>, <<".", "A">>}
\* Malformed patterns: re.compile rejects them
MalformedPatterns == {<<"(">>, <<"A", "(">>}

VARIABLES
    size,               \* self.size
    enable_ht40,        \* self.enable_ht40
    calibrate,          \* self.calibrate
    calibration,        \* pool.get_calibration() is not None
    storage_ht40,       \* self.storage_ht40
    storage_timestamps, \* self.storage_timestamps
    storage_rssi,       \* self.storage_rssi
    head,               \* self.head
    latest,             \* self.latest
    filllevel,          \* self.filllevel
    running,            \* self.running
    callbacks,          \* self.callbacks
    mac_filter,         \* self.mac_filter
    thread,             \* self.thread (None before the first start())
    th,                 \* the threads created by start(): position and locals of each
    app,                \* the application thread: "idle", or "joining" inside stop()
    rd,                 \* a reader context: position and locals of its accessor calls
    filter_error,       \* the last set_mac_filter call raised re.error
    delivered,          \* number of frames the pool has delivered so far
    accepted            \* history: the frames onNewCSI has stored, in order

config == <<size, enable_ht40, calibrate, calibration>>
ring == <<storage_ht40, storage_timestamps, storage_rssi, head, latest, filllevel>>
vars == <<size, enable_ht40, calibrate, calibration, storage_ht40, storage_timestamps,
          storage_rssi, head, latest, filllevel, running, callbacks, mac_filter,
          thread, th, app, rd, filter_error, delivered, accepted>>

\* ------------------------------------------------------- Python / numpy
None == << >>
Some(v) == <<v>>

Min(a, b) == IF a <= b THEN a ELSE b

RECURSIVE Sum(_)
Sum(v) == IF v = << >> THEN 0 ELSE Head(v) + Sum(Tail(v))

\* np.mean of a vector
Mean(v) == Sum(v) \div Len(v)

\* np.zeros(n)
Zeros(n) == [i \in 1..n |-> 0]

\* np.roll(a, shift, axis = 0): element i of the result is element (i - shift) mod n of a
Roll(a, shift) == [i \in 1..Len(a) |-> a[((i - 1 - shift) % Len(a)) + 1]]

\* a[-k:] -- a negative start counts from the end, and -0 is 0: the whole array
SliceLast(a, k) == IF k = 0 THEN a
                   ELSE SubSeq(a, (IF Len(a) - k < 0 THEN 0 ELSE Len(a) - k) + 1, Len(a))

\* re.compile(p) succeeds: the pattern has no unbalanced parenthesis
ReCompiles(p) == \A i \in 1..Len(p) : p[i] # "("

\* re.compile(p).match(s): the pattern must match at the start of s
ReMatch(p, s) == /\ Len(p) <= Len(s)
                 /\ \A i \in 1..Len(p) : p[i] = "." \/ p[i] = s[i]

\* ------------------------------------------------- frames and calibration
NoFrame == [seq |-> 0, mac |-> << >>, ht40 |-> FALSE]

\* clustered_csi.get_source_mac()
get_source_mac(f) == f.mac
\* clustered_csi.is_ht40()
is_ht40(f) == f.ht40
\* clustered_csi.get_sensor_timestamps(): one timestamp per sensor
get_sensor_timestamps(f) == <<10 * f.seq + 3, 10 * f.seq + 5>>
\* clustered_csi.deserialize_csi_ht40()
deserialize_csi_ht40(f) == 100 + f.seq
\* clustered_csi.get_rssi()
frame_rssi(f) == 50 + f.seq

\* pool.get_calibration().apply_timestamps: removes the per-sensor clock offsets
apply_timestamps(v) == [i \in 1..Len(v) |-> v[i] - (2 * i)]
\* pool.get_calibration().apply_ht40: a fixed correction of the channel coefficients
apply_ht40(c) == c + 200

\* Mutant: the timestamp transform is applied a second time
StoredTimestampTwice(f) ==
    Mean(IF calibrate THEN apply_timestamps(apply_timestamps(get_sensor_timestamps(f)))
                      ELSE get_sensor_timestamps(f))

\* What onNewCSI stores for frame f (lines 37-41, 45-50, 53)
StoredTimestamp(f) ==
    Mean(IF calibrate THEN apply_timestamps(get_sensor_timestamps(f))
                      ELSE get_sensor_timestamps(f))
StoredHt40(f) ==
    IF calibrate THEN apply_ht40(deserialize_csi_ht40(f)) ELSE deserialize_csi_ht40(f)
StoredRssi(f) == frame_rssi(f)

\* --------------------------------------------------------------- accessors
\* get_ht40 starts with assert(self.enable_ht40)
get_ht40_asserts == enable_ht40
get_ht40 == SliceLast(Roll(storage_ht40, -head), filllevel)
get_rssi == SliceLast(Roll(storage_rssi, -head), filllevel)
get_timestamps == SliceLast(Roll(storage_timestamps, -head), filllevel)

\* Mutant: the timestamp is read at the write position instead of at latest
get_latest_timestamp_at_head ==
    IF latest = None THEN None ELSE Some(storage_timestamps[head + 1])

get_latest_timestamp ==
    IF latest = None THEN None ELSE Some(storage_timestamps[latest[1] + 1])

nonempty == latest # None

\* ------------------------------------------------------------------- Init
NewThread == [pc |-> "unborn", frame |-> NoFrame, tmp |-> 0, cbi |-> 0,
              seen |-> << >>, outcome |-> "none"]
IdleReader == [pc |-> "idle", op |-> "none", k0 |-> 0, h |-> 0, rolled |-> << >>,
               ht40 |-> None, rssi |-> None, ts |-> None]

\* CSIBacklog.__init__ with size = s
Constructed(s) ==
    /\ size = s
    /\ enable_ht40 \in BOOLEAN
    /\ calibrate \in BOOLEAN
    /\ calibration \in BOOLEAN
    /\ storage_ht40 = Zeros(size)
    /\ storage_timestamps = Zeros(size)
    /\ storage_rssi = Zeros(size)
    /\ head = 0
    /\ latest = None
    /\ running = TRUE
    /\ callbacks = << >>
    /\ filllevel = 0
    /\ mac_filter = None
    /\ thread = None
    /\ th = [t \in Threads |-> NewThread]
    /\ app = "idle"
    /\ rd = IdleReader
    /\ filter_error = FALSE
    /\ delivered = 0
    /\ accepted = << >>

\* __init__, lines 17-19: np.zeros((size, ...)) raises ValueError for a negative size and
\* returns an empty array for size = 0; nothing else in __init__ looks at size
ConstructionSucceeds(s) == s >= 0

\* A backlog of positive capacity, as the application constructs it
Init == \E s \in 1..MaxSize : Constructed(s)

\* ------------------------------------------------- application-side calls
\* start(): a new Thread(target = self.run) is created and started; nothing is tested
start ==
    /\ app = "idle"
    /\ \E t \in Threads :
          /\ th[t].pc = "unborn"
          /\ \A u \in Threads : u < t => th[u].pc # "unborn"
          /\ th' = [th EXCEPT ![t].pc = "loop"]
          /\ thread' = Some(t)
    /\ UNCHANGED <<config, filter_error, ring, running, callbacks, mac_filter, app, rd, delivered, accepted>>

\* stop(), line 95: self.running = False; then line 96 waits in self.thread.join().
\* Without a thread (start() never called) self.thread does not exist and line 96 raises.
stop_request ==
    /\ app = "idle"
    /\ running' = FALSE
    /\ app' = IF thread = None THEN "idle" ELSE "joining"
    /\ UNCHANGED <<config, filter_error, ring, callbacks, mac_filter, thread, th, rd, delivered, accepted>>

\* Mutant: stop() returns without waiting for the thread
stop_join_no_wait ==
    /\ app = "joining"
    /\ app' = "idle"
    /\ UNCHANGED <<config, filter_error, ring, running, callbacks, mac_filter, thread, th, rd, delivered, accepted>>

\* stop(), line 96: join() returns once the thread has ended
stop_join ==
    /\ app = "joining"
    /\ th[thread[1]].pc = "dead"
    /\ app' = "idle"
    /\ UNCHANGED <<config, filter_error, ring, running, callbacks, mac_filter, thread, th, rd, delivered, accepted>>

\* Mutant: a malformed pattern removes the installed filter
set_mac_filter_clears_on_error(p) ==
    /\ app = "idle"
    /\ mac_filter' = IF ReCompiles(p) THEN Some(p) ELSE None
    /\ filter_error' = ~ReCompiles(p)
    /\ UNCHANGED <<config, ring, running, callbacks, thread, th, app, rd, delivered, accepted>>

\* set_mac_filter(filter_regex), line 99: re.compile raises re.error for a malformed
\* pattern, before the assignment to self.mac_filter takes place
set_mac_filter(p) ==
    /\ app = "idle"
    /\ mac_filter' = IF ReCompiles(p) THEN Some(p) ELSE mac_filter
    /\ filter_error' = ~ReCompiles(p)
    /\ UNCHANGED <<config, ring, running, callbacks, thread, th, app, rd, delivered, accepted>>

\* add_update_callback(cb)
add_update_callback(cb) ==
    /\ app = "idle"
    /\ Len(callbacks) < MaxCallbacks
    /\ callbacks' = Append(callbacks, cb)
    /\ UNCHANGED <<config, filter_error, ring, running, mac_filter, thread, th, app, rd, delivered, accepted>>

\* ------------------------------------------------------ the backlog thread
\* Mutant: the loop never looks at self.running
run_test_ignores_flag(t) ==
    /\ th[t].pc = "loop"
    /\ th' = [th EXCEPT ![t].pc = "run"]
    /\ UNCHANGED <<config, filter_error, ring, running, callbacks, mac_filter, thread, app, rd, delivered, accepted>>

\* run(), line 102: while self.running
run_test(t) ==
    /\ th[t].pc = "loop"
    /\ th' = [th EXCEPT ![t].pc = IF running THEN "run" ELSE "dead"]
    /\ UNCHANGED <<config, filter_error, ring, running, callbacks, mac_filter, thread, app, rd, delivered, accepted>>

\* run(), line 103: pool.run() returns without having had a frame to deliver
pool_run_idle(t) ==
    /\ th[t].pc = "run"
    /\ th' = [th EXCEPT ![t].pc = "loop"]
    /\ UNCHANGED <<config, filter_error, ring, running, callbacks, mac_filter, thread, app, rd, delivered, accepted>>

\* run(), line 103: pool.run() has a frame and calls the registered onNewCSI with it
pool_run_deliver(t, mac, ht40) ==
    /\ th[t].pc = "run"
    /\ delivered' = delivered + 1
    /\ th' = [th EXCEPT ![t] = [pc |-> "filter",
                                frame |-> [seq |-> delivered + 1, mac |-> mac, ht40 |-> ht40],
                                tmp |-> 0, cbi |-> 0, seen |-> << >>, outcome |-> "none"]]
    /\ UNCHANGED <<config, filter_error, ring, running, callbacks, mac_filter, thread, app, rd, accepted>>

\* Mutant: the test of the match is inverted
FilterRejectsInverted(f) ==
    /\ mac_filter # None
    /\ ReMatch(mac_filter[1], get_source_mac(f))

\* onNewCSI, lines 32-34: does the installed filter drop the frame?
FilterRejects(f) ==
    /\ mac_filter # None
    /\ ~ReMatch(mac_filter[1], get_source_mac(f))

onNewCSI_filter(t) ==
    /\ th[t].pc = "filter"
    /\ th' = [th EXCEPT ![t] = IF FilterRejects(th[t].frame)
                               THEN [@ EXCEPT !.pc = "loop", !.outcome = "rejected"]
                               ELSE [@ EXCEPT !.pc = "timestamp"]]
    /\ UNCHANGED <<config, filter_error, ring, running, callbacks, mac_filter, thread, app, rd, delivered, accepted>>

\* onNewCSI, lines 39 and 47: assert(self.pool.get_calibration() is not None)
CalibrationAssertFails == calibrate /\ ~calibration

\* onNewCSI, line 41: storage_timestamps[self.head] raises IndexError past the last slot
IndexOutOfBounds == head >= size

\* onNewCSI, lines 37-41: an AssertionError or IndexError leaves onNewCSI, pool.run()
\* and run()
onNewCSI_timestamp(t) ==
    /\ th[t].pc = "timestamp"
    /\ IF CalibrationAssertFails \/ IndexOutOfBounds
       THEN /\ th' = [th EXCEPT ![t] = [@ EXCEPT !.pc = "dead", !.outcome = "raised"]]
            /\ UNCHANGED storage_timestamps
       ELSE /\ storage_timestamps' =
                   [storage_timestamps EXCEPT ![head + 1] = StoredTimestamp(th[t].frame)]
            /\ th' = [th EXCEPT ![t].pc = "ht40"]
    /\ UNCHANGED <<config, filter_error, storage_ht40, storage_rssi, head, latest, filllevel, running,
                   callbacks, mac_filter, thread, app, rd, delivered, accepted>>

\* onNewCSI, line 44
StoresHt40(f) == enable_ht40 /\ is_ht40(f)

\* Mutant: the channel slot is written for every frame
onNewCSI_ht40_unconditional(t) ==
    /\ th[t].pc = "ht40"
    /\ storage_ht40' = [storage_ht40 EXCEPT ![head + 1] = StoredHt40(th[t].frame)]
    /\ th' = [th EXCEPT ![t].pc = "rssi"]
    /\ UNCHANGED <<config, filter_error, storage_timestamps, storage_rssi, head, latest, filllevel, running,
                   callbacks, mac_filter, thread, app, rd, delivered, accepted>>

\* onNewCSI, lines 44-50
onNewCSI_ht40(t) ==
    /\ th[t].pc = "ht40"
    /\ storage_ht40' = IF StoresHt40(th[t].frame)
                       THEN [storage_ht40 EXCEPT ![head + 1] = StoredHt40(th[t].frame)]
                       ELSE storage_ht40
    /\ th' = [th EXCEPT ![t].pc = "rssi"]
    /\ UNCHANGED <<config, filter_error, storage_timestamps, storage_rssi, head, latest, filllevel, running,
                   callbacks, mac_filter, thread, app, rd, delivered, accepted>>

\* onNewCSI, line 53
onNewCSI_rssi(t) ==
    /\ th[t].pc = "rssi"
    /\ storage_rssi' = [storage_rssi EXCEPT ![head + 1] = StoredRssi(th[t].frame)]
    /\ th' = [th EXCEPT ![t].pc = "latest"]
    /\ UNCHANGED <<config, filter_error, storage_ht40, storage_timestamps, head, latest, filllevel, running,
                   callbacks, mac_filter, thread, app, rd, delivered, accepted>>

\* Mutant: latest is set to the slot after the one just written
onNewCSI_latest_off_by_one(t) ==
    /\ th[t].pc = "latest"
    /\ latest' = Some((head + 1) % size)
    /\ th' = [th EXCEPT ![t].pc = "head_load"]
    /\ UNCHANGED <<config, filter_error, storage_ht40, storage_timestamps, storage_rssi, head, filllevel,
                   running, callbacks, mac_filter, thread, app, rd, delivered, accepted>>

\* onNewCSI, line 56: self.latest = self.head
onNewCSI_latest(t) ==
    /\ th[t].pc = "latest"
    /\ latest' = Some(head)
    /\ th' = [th EXCEPT ![t].pc = "head_load"]
    /\ UNCHANGED <<config, filter_error, storage_ht40, storage_timestamps, storage_rssi, head, filllevel,
                   running, callbacks, mac_filter, thread, app, rd, delivered, accepted>>

\* Mutant: the head is advanced without wrapping around
NextHeadNoWrap(h) == h + 1
\* Mutant: the fill level is counted up without the cap
NextFilllevelUncapped(f) == f + 1

\* (self.head + 1) % self.size
NextHead(h) == (h + 1) % size
\* min(self.filllevel + 1, self.size)
NextFilllevel(f) == Min(f + 1, size)

\* onNewCSI, line 57, right-hand side: self.head is loaded
onNewCSI_head_load(t) ==
    /\ th[t].pc = "head_load"
    /\ th' = [th EXCEPT ![t] = [@ EXCEPT !.pc = "head_store", !.tmp = head]]
    /\ UNCHANGED <<config, filter_error, ring, running, callbacks, mac_filter, thread, app, rd, delivered, accepted>>

\* onNewCSI, line 57, assignment
onNewCSI_head_store(t) ==
    /\ th[t].pc = "head_store"
    /\ head' = NextHead(th[t].tmp)
    /\ th' = [th EXCEPT ![t].pc = "fill_load"]
    /\ UNCHANGED <<config, filter_error, storage_ht40, storage_timestamps, storage_rssi, latest, filllevel,
                   running, callbacks, mac_filter, thread, app, rd, delivered, accepted>>

\* onNewCSI, line 58, right-hand side: self.filllevel is loaded
onNewCSI_fill_load(t) ==
    /\ th[t].pc = "fill_load"
    /\ th' = [th EXCEPT ![t] = [@ EXCEPT !.pc = "fill_store", !.tmp = filllevel]]
    /\ UNCHANGED <<config, filter_error, ring, running, callbacks, mac_filter, thread, app, rd, delivered, accepted>>

\* onNewCSI, line 58, assignment: the last mutation for the frame, which is now stored
onNewCSI_fill_store(t) ==
    /\ th[t].pc = "fill_store"
    /\ filllevel' = NextFilllevel(th[t].tmp)
    /\ accepted' = Append(accepted, th[t].frame)
    /\ th' = [th EXCEPT ![t] = [@ EXCEPT !.pc = "callbacks", !.cbi = 0]]
    /\ UNCHANGED <<config, filter_error, storage_ht40, storage_timestamps, storage_rssi, head, latest,
                   running, callbacks, mac_filter, thread, app, rd, delivered>>

\* What a subscriber that reads the backlog sees when it is called
Observe(cb) ==
    [cb |-> cb,
     latest_timestamp |-> get_latest_timestamp,
     timestamps |-> get_timestamps,
     rssi |-> get_rssi,
     ht40 |-> IF get_ht40_asserts THEN get_ht40 ELSE << >>]

\* Mutant: the loop over the subscribers ends after the first one
onNewCSI_callbacks_first_only(t) ==
    /\ th[t].pc = "callbacks"
    /\ th' = [th EXCEPT ![t] =
                 IF th[t].cbi < Len(callbacks) /\ th[t].cbi = 0
                 THEN [@ EXCEPT !.cbi = @ + 1,
                                !.seen = Append(@, Observe(callbacks[th[t].cbi + 1]))]
                 ELSE [@ EXCEPT !.pc = "loop", !.outcome = "accepted"]]
    /\ UNCHANGED <<config, filter_error, ring, running, callbacks, mac_filter, thread, app, rd, delivered, accepted>>

\* onNewCSI, lines 60-61: for cb in self.callbacks: cb() -- one iteration, or the end
onNewCSI_callbacks(t) ==
    /\ th[t].pc = "callbacks"
    /\ th' = [th EXCEPT ![t] =
                 IF th[t].cbi < Len(callbacks)
                 THEN [@ EXCEPT !.cbi = @ + 1,
                                !.seen = Append(@, Observe(callbacks[th[t].cbi + 1]))]
                 ELSE [@ EXCEPT !.pc = "loop", !.outcome = "accepted"]]
    /\ UNCHANGED <<config, filter_error, ring, running, callbacks, mac_filter, thread, app, rd, delivered, accepted>>

onNewCSI(t) ==
    \/ onNewCSI_filter(t)
    \/ onNewCSI_timestamp(t)
    \/ onNewCSI_ht40(t)
    \/ onNewCSI_rssi(t)
    \/ onNewCSI_latest(t)
    \/ onNewCSI_head_load(t)
    \/ onNewCSI_head_store(t)
    \/ onNewCSI_fill_load(t)
    \/ onNewCSI_fill_store(t)
    \/ onNewCSI_callbacks(t)

\* run(), executed by thread t; the pool delivers at most limit frames in all
run(t, limit) ==
    \/ run_test(t)
    \/ pool_run_idle(t)
    \/ \E mac \in Macs, ht40 \in BOOLEAN : delivered < limit /\ pool_run_deliver(t, mac, ht40)
    \/ onNewCSI(t)

\* ------------------------------------------------------------ a reader
\* A reader context calls get_all(): get_ht40(), get_rssi(), get_timestamps() in turn.
\* In each, np.roll(self.storage_x, -self.head, axis = 0)[-self.filllevel:] loads
\* self.head, copies the rolled array, and only then loads self.filllevel for the slice.
Storage(op) == IF op = "ht40" THEN storage_ht40
               ELSE IF op = "rssi" THEN storage_rssi ELSE storage_timestamps

\* get_all, line 77: assert(self.enable_ht40), then get_ht40 is entered
reader_call ==
    /\ rd.pc = "idle"
    /\ rd' = IF get_ht40_asserts
             THEN [IdleReader EXCEPT !.pc = "head", !.op = "ht40", !.k0 = Len(accepted)]
             ELSE IdleReader
    /\ UNCHANGED <<config, filter_error, ring, running, callbacks, mac_filter, thread, th, app, delivered, accepted>>

\* lines 68, 71, 74: -self.head is evaluated
reader_head ==
    /\ rd.pc = "head"
    /\ rd' = [rd EXCEPT !.pc = "roll", !.h = head]
    /\ UNCHANGED <<config, filter_error, ring, running, callbacks, mac_filter, thread, th, app, delivered, accepted>>

\* lines 68, 71, 74: np.roll copies the storage
reader_roll ==
    /\ rd.pc = "roll"
    /\ rd' = [rd EXCEPT !.pc = "slice", !.rolled = Roll(Storage(rd.op), -rd.h)]
    /\ UNCHANGED <<config, filter_error, ring, running, callbacks, mac_filter, thread, th, app, delivered, accepted>>

\* lines 68, 71, 74: self.filllevel is loaded and the slice returned; the result is kept
\* with the number of frames stored when the accessor was entered (k0) and left (k1)
reader_slice ==
    /\ rd.pc = "slice"
    /\ LET res == Some([val |-> SliceLast(rd.rolled, filllevel),
                        k0 |-> rd.k0, k1 |-> Len(accepted)])
       IN rd' = IF rd.op = "ht40"
                THEN [rd EXCEPT !.ht40 = res, !.op = "rssi", !.pc = "head",
                                !.k0 = Len(accepted), !.rolled = << >>, !.h = 0]
                ELSE IF rd.op = "rssi"
                THEN [rd EXCEPT !.rssi = res, !.op = "ts", !.pc = "head",
                                !.k0 = Len(accepted), !.rolled = << >>, !.h = 0]
                ELSE [rd EXCEPT !.ts = res, !.op = "none", !.pc = "done",
                                !.rolled = << >>, !.h = 0]
    /\ UNCHANGED <<config, filter_error, ring, running, callbacks, mac_filter, thread, th, app, delivered, accepted>>

\* get_all, line 78: the triple is returned to the caller
reader_return ==
    /\ rd.pc = "done"
    /\ rd' = IdleReader
    /\ UNCHANGED <<config, filter_error, ring, running, callbacks, mac_filter, thread, th, app, delivered, accepted>>

get_all ==
    \/ reader_call
    \/ reader_head
    \/ reader_roll
    \/ reader_slice
    \/ reader_return

\* ----------------------------------------------------------- specifications
\* The application of src/demos/instantaneous-csi: it starts the backlog once (line 42)
\* and stops it at the end (line 149).
StartOnce == thread = None /\ start

\* Spec: one backlog thread; the application installs filters at any time.
Next ==
    \/ StartOnce
    \/ stop_request
    \/ stop_join
    \/ \E p \in Patterns : set_mac_filter(p)
    \/ \E t \in Threads : run(t, MaxFrames)

Spec == Init /\ [][Next]_vars

\* SpecCallbacks: one backlog thread; the application also registers subscribers.
InitCallbacks == Init /\ size <= MaxNotifySize /\ ~calibrate

NextCallbacks ==
    \/ StartOnce
    \/ \E p \in Patterns : set_mac_filter(p)
    \/ \E cb \in CallbackIds : add_update_callback(cb)
    \/ \E t \in Threads : run(t, MaxNotifyFrames)

SpecCallbacks == InitCallbacks /\ [][NextCallbacks]_vars

\* SpecReader: one backlog thread and one reader context calling get_all() repeatedly.
InitReader == Init /\ enable_ht40 /\ ~calibrate

NextReader ==
    \/ StartOnce
    \/ \E t \in Threads : run(t, MaxReaderFrames)
    \/ get_all

SpecReader == InitReader /\ [][NextReader]_vars

\* SpecLifecycle: the application calls start() and stop() in any order.
InitLifecycle == Init /\ size <= MaxLifecycleSize /\ enable_ht40 /\ ~calibrate

NextLifecycle ==
    \/ start
    \/ stop_request
    \/ stop_join
    \/ \E t \in Threads : run(t, MaxLifecycleFrames)

SpecLifecycle == InitLifecycle /\ [][NextLifecycle]_vars

\* SpecStop: one backlog thread that is scheduled again and again, a pool whose run()
\* always returns, and an application that starts the backlog once and stops it.
InitStop == Init /\ size <= MaxStopSize

NextStop ==
    \/ StartOnce
    \/ stop_request
    \/ stop_join
    \/ \E t \in Threads : run(t, MaxStopFrames)

SpecStop ==
    /\ InitStop
    /\ [][NextStop]_vars
    /\ \A t \in Threads : WF_vars(run(t, MaxStopFrames))
    /\ WF_vars(stop_join)

\* SpecRestart: the application stops the backlog it started and starts it again, each
\* start() after the previous thread has ended.
StartWhenStopped == (\A t \in Threads : th[t].pc \in {"unborn", "dead"}) /\ start
StopStarted == thread # None /\ stop_request

NextRestart ==
    \/ StartWhenStopped
    \/ StopStarted
    \/ stop_join
    \/ \E t \in Threads : run(t, MaxLifecycleFrames)

SpecRestart == InitLifecycle /\ [][NextRestart]_vars

\* SpecConstruct: as Spec, for every size the caller may pass to the constructor; a
\* construction that raises leaves no backlog, hence no state.
InitConstruct == \E s \in -1..MaxLifecycleSize : ConstructionSucceeds(s) /\ Constructed(s)

NextConstruct ==
    \/ StartOnce
    \/ stop_request
    \/ stop_join
    \/ \E t \in Threads : run(t, MaxLifecycleFrames)

SpecConstruct == InitConstruct /\ [][NextConstruct]_vars

\* SpecFilter: one backlog thread; the application installs filters at any time, and some
\* of the patterns it passes are malformed.
NextFilter ==
    \/ StartOnce
    \/ \E p \in Patterns \cup MalformedPatterns : set_mac_filter(p)
    \/ \E t \in Threads : run(t, MaxNotifyFrames)

SpecFilter == InitCallbacks /\ [][NextFilter]_vars

\* No onNewCSI call is between its first write and its last
Stable == \A t \in Threads :
    th[t].pc \notin {"ht40", "rssi", "latest", "head_load", "head_store", "fill_load", "fill_store"}

\* ------------------------------------------------- what a snapshot should be
Max(a, b) == IF a >= b THEN a ELSE b

\* The last min(k, size) of the first k stored frames, oldest first
Window(k) == [i \in 1..Min(k, size) |-> accepted[Max(k - size, 0) + i]]

FrameTimestamps(k) == [i \in 1..Min(k, size) |-> StoredTimestamp(Window(k)[i])]
FrameRssi(k) == [i \in 1..Min(k, size) |-> StoredRssi(Window(k)[i])]
FrameHt40(k) == [i \in 1..Min(k, size) |-> StoredHt40(Window(k)[i])]

\* The channel data in the slot of the n-th stored frame: the frame's own if it carried
\* HT40 data, else what the slot held before (the frame stored size insertions earlier, or 0)
RECURSIVE SlotHt40(_)
SlotHt40(n) == IF n < 1 THEN 0
               ELSE IF StoresHt40(accepted[n]) THEN StoredHt40(accepted[n])
               ELSE SlotHt40(n - size)
SlotsHt40(k) == [i \in 1..Min(k, size) |-> SlotHt40(Max(k - size, 0) + i)]

\* ------------------------------------------------------------------ claims
\* C1 as stated: once count >= N frames are stored, fill_level is N and get_ht40,
\* get_rssi and get_timestamps each return exactly the N most recent frames, oldest first.
C1_AllSnapshotsAreTheLastNFrames ==
    (Stable /\ Len(accepted) >= size) =>
        /\ filllevel = size
        /\ get_timestamps = FrameTimestamps(Len(accepted))
        /\ get_rssi = FrameRssi(Len(accepted))
        /\ get_ht40_asserts =>
              /\ get_ht40 = FrameHt40(Len(accepted))
              /\ \A i \in 1..size : StoresHt40(Window(Len(accepted))[i])

\* C1 amended: once count >= N frames are stored, fill_level is N (and stays N), and
\* get_rssi and get_timestamps return exactly the N most recent frames, oldest first;
\* get_ht40 returns the N slots in the same order, where the slot of a frame that carried
\* HT40 data holds that frame's channel data and the slot of a frame that did not holds
\* what it held before.
C1_FifoAfterSaturation ==
    (Stable /\ Len(accepted) >= size) =>
        /\ filllevel = size
        /\ get_timestamps = FrameTimestamps(Len(accepted))
        /\ get_rssi = FrameRssi(Len(accepted))
        /\ get_ht40_asserts => get_ht40 = SlotsHt40(Len(accepted))

\* C1 witness: the ring has wrapped (count = N + 1, N >= 2), and the newest frame carried
\* no HT40 data while the one it evicted did
C1_Witness ==
    /\ Stable
    /\ size >= 2
    /\ enable_ht40
    /\ Len(accepted) = size + 1
    /\ accepted[1].ht40
    /\ ~accepted[size + 1].ht40
    /\ get_timestamps[1] = StoredTimestamp(accepted[2])

\* C2 as stated: after N' < N stored frames (N' = 0 included) fill_level is N' and every
\* accessor returns exactly N' entries, the stored frames in insertion order.
C2_PartialFill ==
    (Stable /\ Len(accepted) < size) =>
        /\ filllevel = Len(accepted)
        /\ Len(get_timestamps) = Len(accepted)
        /\ Len(get_rssi) = Len(accepted)
        /\ get_ht40_asserts => Len(get_ht40) = Len(accepted)
        /\ get_timestamps = FrameTimestamps(Len(accepted))
        /\ get_rssi = FrameRssi(Len(accepted))

\* What accessor op should return when exactly the first k stored frames are in the ring
Snapshot(op, k) == IF op = "ht40" THEN SlotsHt40(k)
                   ELSE IF op = "rssi" THEN FrameRssi(k) ELSE FrameTimestamps(k)

Results == {<<"ht40", rd.ht40>>, <<"rssi", rd.rssi>>, <<"ts", rd.ts>>}

\* C3 as stated, for accessor calls entered on a non-empty backlog: what an accessor
\* returns while the producer runs is the ordered ring content of one instant of the call,
\* that is the snapshot after k stored frames for some k between the number stored when
\* the call was entered and the number stored when it returned.
C3_SnapshotIsOneInstant ==
    \A r \in Results :
        (r[2] # None /\ r[2][1].k0 >= 1) =>
            \E k \in r[2][1].k0 .. r[2][1].k1 : r[2][1].val = Snapshot(r[1], k)

\* C4 as stated, for get_all calls entered on a non-empty backlog: the three snapshots
\* have the same length and are the snapshots of the same stored frames.
C4_TripleIsOneInstant ==
    (rd.pc = "done" /\ rd.ht40[1].k0 >= 1) =>
        /\ Len(rd.ht40[1].val) = Len(rd.rssi[1].val)
        /\ Len(rd.rssi[1].val) = Len(rd.ts[1].val)
        /\ \E k \in rd.ht40[1].k0 .. rd.ts[1].k1 :
              /\ rd.ht40[1].val = Snapshot("ht40", k)
              /\ rd.rssi[1].val = Snapshot("rssi", k)
              /\ rd.ts[1].val = Snapshot("ts", k)

\* C5: when a filter is installed and the frame's source MAC does not match it, onNewCSI
\* returns at once: head, fill level, latest and all three storages are unchanged, the
\* frame is not stored, and no subscriber is called.
C5_RejectedFrameChangesNothing ==
    [][\A t \in Threads :
          ( /\ th[t].pc = "filter"
            /\ th'[t] # th[t]
            /\ mac_filter # None
            /\ ~ReMatch(mac_filter[1], th[t].frame.mac) ) =>
          ( /\ UNCHANGED <<ring, accepted>>
            /\ th'[t].pc = "loop"
            /\ th'[t].seen = << >> )]_vars

\* C5 witness: a frame has just been dropped by the filter on a saturated backlog that
\* has a subscriber
C5_Witness ==
    \E t \in Threads :
        /\ th[t].pc = "loop"
        /\ th[t].outcome = "rejected"
        /\ filllevel = size
        /\ Len(accepted) >= 1
        /\ Len(callbacks) >= 1

\* The calls made so far for the frame thread t is in: each registered subscriber once, in
\* registration order, each seeing the frame as stored, as latest timestamp and as the
\* newest entry of the snapshots (of the channel snapshot when the frame carried HT40 data)
NotifiedInOrder(t) ==
    /\ Len(th[t].seen) <= Len(callbacks)
    /\ \A i \in 1..Len(th[t].seen) :
          LET o == th[t].seen[i]
              f == th[t].frame
          IN /\ o.cb = callbacks[i]
             /\ o.latest_timestamp = Some(StoredTimestamp(f))
             /\ o.timestamps # << >>
             /\ o.timestamps[Len(o.timestamps)] = StoredTimestamp(f)
             /\ o.rssi[Len(o.rssi)] = StoredRssi(f)
             /\ StoresHt40(f) => o.ht40[Len(o.ht40)] = StoredHt40(f)

C7_LatestTimestamp ==
    Stable =>
        /\ (get_latest_timestamp = None) <=> (accepted = << >>)
        /\ accepted # << >> =>
              get_latest_timestamp = Some(StoredTimestamp(accepted[Len(accepted)]))

\* C7 witness: the ring has wrapped and the newest frame is in slot 0 again
C7_Witness ==
    /\ Stable
    /\ size >= 2
    /\ Len(accepted) = size + 1
    /\ latest = Some(0)
    /\ get_latest_timestamp = Some(StoredTimestamp(accepted[size + 1]))

\* C8 as stated: in every state a reader can observe, also inside an onNewCSI call,
\* latest is defined iff fill_level > 0, and nonempty() is true exactly when fill_level > 0.
C8_LatestIffFilled ==
    /\ (latest # None) <=> (filllevel > 0)
    /\ nonempty <=> (filllevel > 0)

\* C9: always 0 <= head < capacity and 0 <= fill_level <= capacity; every stored frame
\* moves head to (head + 1) mod capacity and fill_level to min(fill_level + 1, capacity);
\* fill_level never decreases.
C9_IndexArithmetic ==
    /\ [](/\ head \in 0..(size - 1)
          /\ filllevel \in 0..size
          /\ Stable => /\ head = Len(accepted) % size
                       /\ filllevel = Min(Len(accepted), size))
    /\ [][/\ filllevel' >= filllevel
          /\ accepted' # accepted => filllevel' = Min(filllevel + 1, size)
          /\ head' # head => head' = (head + 1) % size]_vars

\* C9 witness: head has wrapped to 0 and the fill level has stopped at the capacity
C9_Witness ==
    /\ Stable
    /\ size >= 2
    /\ Len(accepted) = size + 1
    /\ head = 1
    /\ filllevel = size

\* The threads created by start() that have not ended
Alive == {t \in Threads : th[t].pc \notin {"unborn", "dead"}}

\* C10 as stated: start() while the producer is running fails and creates no second
\* producer thread, so at most one thread created by start() is alive.
C10_NoSecondProducer == Cardinality(Alive) <= 1

\* The threads that are inside an onNewCSI call
InOnNewCSI == {t \in Threads : th[t].pc \in {"filter", "timestamp", "ht40", "rssi", "latest",
                 "head_load", "head_store", "fill_load", "fill_store", "callbacks"}}

\* C11 as stated: for any sequence of start() and stop() calls at most one thread runs
\* the run-loop, so two onNewCSI calls never interleave and no update of head or
\* fill_level is lost: between calls they account for every stored frame.
C11_SingleWriter ==
    /\ Cardinality(InOnNewCSI) <= 1
    /\ Stable => /\ head = Len(accepted) % size
                 /\ filllevel = Min(Len(accepted), size)

\* The producer has been told to stop and its thread has ended
Stopped == ~running /\ thread # None /\ th[thread[1]].pc = "dead"

\* The ring is as the stored frames left it: n frames stored, the last min(n, size) in place
RingHolds(n) ==
    /\ head = n % size
    /\ filllevel = Min(n, size)
    /\ latest = IF n = 0 THEN None ELSE Some((n - 1) % size)
    /\ \A j \in (Max(n - size, 0) + 1)..n :
          /\ storage_timestamps[((j - 1) % size) + 1] = StoredTimestamp(accepted[j])
          /\ storage_rssi[((j - 1) % size) + 1] = StoredRssi(accepted[j])
          /\ storage_ht40[((j - 1) % size) + 1] = SlotHt40(j)

\* What stop() itself does: neither of its two statements touches the ring, it returns
\* only once the thread has ended, and from then on the producer stays stopped and the
\* ring and what the accessors return stay as the last stored frame left them
StopKeepsRing ==
    /\ (app = "idle" /\ app' = "joining") => (~running' /\ UNCHANGED ring)
    /\ (app = "joining" /\ app' = "idle") =>
          /\ th[thread[1]].pc = "dead"
          /\ Stopped'
          /\ UNCHANGED ring
    /\ Stopped =>
          /\ Stopped'
          /\ RingHolds(Len(accepted))
          /\ UNCHANGED ring
          /\ UNCHANGED <<get_ht40, get_rssi, get_timestamps, get_latest_timestamp>>

\* C12 as stated: stop() returns only after the producer thread has ended, leaves the
\* producer stopped and the ring as the last stored frame left it, and the accessors
\* return after stop() what they returned immediately before stop() was called: nothing
\* they return changes while stop() is in progress.
C12_AccessorsSameAsBeforeStop ==
    [][/\ StopKeepsRing
       /\ app = "joining" =>
             UNCHANGED <<get_ht40, get_rssi, get_timestamps, get_latest_timestamp>>]_vars

\* C12 amended: stop() returns only after the producer thread has ended, leaves the
\* producer stopped, and changes no ring field itself; the ring is then as the last
\* stored frame left it (a frame the thread was handling while stop() waited included),
\* and the accessors return the same values at every later time.
C12_StopPreservesRing == [][StopKeepsRing]_vars

\* C12 witness: stop() has returned on a backlog that wrapped; the thread has ended
C12_Witness ==
    /\ Stopped
    /\ app = "idle"
    /\ size >= 2
    /\ Len(accepted) > size
    /\ get_timestamps[size] = StoredTimestamp(accepted[Len(accepted)])

\* C13: if every pool.run() returns, a stop() called while the thread runs eventually
\* returns: the loop sees the cleared flag after the current pool.run(), the thread
\* ends and join() completes, leaving the producer stopped.
C13_StopReturns == (app = "joining") ~> (app = "idle" /\ Stopped)

\* C13 witness: stop() is waiting in join() while the thread is in the middle of onNewCSI
C13_Witness ==
    /\ app = "joining"
    /\ ~running
    /\ th[thread[1]].pc = "head_store"
    /\ filllevel >= 1

\* C14 as stated: start() after stop() leaves the ring as it was and recreates the
\* producer running: the new thread goes on calling pool.run(), and so ends its loop only
\* when stop() is called again.
C14_RestartedProducerRuns ==
    [][/\ thread' # thread => UNCHANGED ring
       /\ \A t \in Threads :
             (t > 1 /\ th[t].pc = "loop" /\ th'[t].pc = "dead") => app = "joining"]_vars

\* C15 as stated: with calibration enabled and no calibration available from the pool,
\* start() fails, so no thread ever runs, and no onNewCSI call raises on a frame.
C15_FailsAtStart ==
    (calibrate /\ ~calibration) =>
        \A t \in Threads : th[t].pc = "unborn" /\ th[t].outcome # "raised"

\* C16 as stated: construction with capacity <= 0 fails, so every backlog that exists
\* (on which start(), onNewCSI or an accessor can run) has a positive capacity.
C16_PositiveCapacity == size > 0

\* Would a frame from source MAC m be dropped by the installed filter?
Drops(m) == FilterRejects([NoFrame EXCEPT !.mac = m])

\* C17: a set_mac_filter call with a malformed pattern fails and leaves the installed
\* filter (or the absence of one) as it was, so every frame is accepted or rejected as
\* before the call; a successful call replaces the filter as a whole by the new pattern.
C17_MalformedPatternKeepsFilter ==
    [][/\ filter_error' =>
             /\ mac_filter' = mac_filter
             /\ \A m \in Macs : Drops(m)' = Drops(m)
       /\ mac_filter' # mac_filter =>
             /\ ~filter_error'
             /\ \E p \in Patterns :
                   /\ mac_filter' = Some(p)
                   /\ \A m \in Macs : Drops(m)' = ~ReMatch(p, m)]_vars

\* C17 witness: the last set_mac_filter call failed while a filter was installed, and a
\* frame that this filter drops is about to be tested
C17_Witness ==
    /\ filter_error
    /\ mac_filter = Some(<<"A">>)
    /\ \E t \in Threads : th[t].pc = "filter" /\ th[t].frame.mac = <<"B", "A">>

\* The frame thread t is handling carries no channel data in the tracked mode
LacksHt40(t) == ~(enable_ht40 /\ th[t].frame.ht40)

\* C18: for an accepted frame without channel data in the tracked mode (HT40 tracking
\* off, or not an HT40 frame) onNewCSI leaves storage_ht40[head] as it is, and still
\* writes the timestamp and RSSI slots, sets latest, advances head and fill level and
\* calls every subscriber; the channel slot of that frame holds what it held before
\* (zero, or the channel data stored size insertions earlier).
C18_FrameWithoutHt40 ==
    /\ [][\A t \in Threads :
            /\ (th[t].pc = "ht40" /\ th'[t].pc # "ht40" /\ LacksHt40(t)) =>
                  storage_ht40' = storage_ht40
            /\ (th[t].pc = "callbacks" /\ th'[t].pc # "callbacks" /\ LacksHt40(t)) =>
                  /\ Len(th[t].seen) = Len(callbacks)
                  /\ \A i \in 1..Len(callbacks) : th[t].seen[i].cb = callbacks[i]]_vars
    /\ [](\A t \in Threads :
            (th[t].pc = "callbacks" /\ LacksHt40(t)) =>
                LET n == Len(accepted)
                    slot == (n - 1) % size
                IN /\ n >= 1
                   /\ accepted[n] = th[t].frame
                   /\ storage_timestamps[slot + 1] =
                          Mean(get_sensor_timestamps(th[t].frame))
                   /\ storage_rssi[slot + 1] = frame_rssi(th[t].frame)
                   /\ latest = Some(slot)
                   /\ head = n % size
                   /\ filllevel = Min(n, size)
                   /\ storage_ht40[slot + 1] = SlotHt40(n - size)
                   /\ enable_ht40 => get_ht40[Len(get_ht40)] = SlotHt40(n - size))

\* C18 witness: on a backlog of capacity 1 that tracks HT40, a subscriber has been called
\* for a second frame that is not HT40, and the channel slot still holds the first frame
C18_Witness ==
    \E t \in Threads :
        /\ th[t].pc = "loop"
        /\ th[t].outcome = "accepted"
        /\ enable_ht40
        /\ size = 1
        /\ Len(accepted) = 2
        /\ accepted[1].ht40
        /\ ~accepted[2].ht40
        /\ Len(th[t].seen) >= 1
        /\ storage_ht40[1] = deserialize_csi_ht40(accepted[1])
        /\ storage_rssi[1] = frame_rssi(accepted[2])

\* The frames some thread is writing: past the filter, not yet counted as stored
InFlight == {th[t].frame : t \in {u \in Threads : th[u].pc \in
                 {"ht40", "rssi", "latest", "head_load", "head_store", "fill_load", "fill_store"}}}
StoredFrames == {accepted[j] : j \in 1..Len(accepted)}

\* A frame's values with each transform applied once
OnceTimestamp(f) == Mean(apply_timestamps(get_sensor_timestamps(f)))
OnceHt40(f) == apply_ht40(deserialize_csi_ht40(f))

\* C19: with calibration enabled, what every slot holds is the value of a frame that
\* passed the filter with the timestamp transform, respectively the channel transform,
\* applied exactly once (or the initial zero): never a rejected frame's value, never a
\* value transformed twice or not at all, whatever has run since (later frames,
\* set_mac_filter, stop); between onNewCSI calls the slot of each of the last
\* min(n, size) stored frames holds that frame's own once-transformed values.
C19_CalibratedOnce ==
    calibrate =>
        /\ \A i \in 1..size :
              /\ storage_timestamps[i] \in
                    {0} \cup {OnceTimestamp(f) : f \in StoredFrames \cup InFlight}
              /\ storage_ht40[i] \in
                    {0} \cup {OnceHt40(f) : f \in {g \in StoredFrames \cup InFlight : g.ht40}}
        /\ Stable =>
              \A j \in (Max(Len(accepted) - size, 0) + 1)..Len(accepted) :
                  /\ storage_timestamps[((j - 1) % size) + 1] = OnceTimestamp(accepted[j])
                  /\ (enable_ht40 /\ accepted[j].ht40) =>
                        storage_ht40[((j - 1) % size) + 1] = OnceHt40(accepted[j])

\* C19 witness: with calibration on, the ring has wrapped, the newest stored frame is an
\* HT40 frame, and a frame delivered after it has been rejected by the filter
C19_Witness ==
    /\ calibrate
    /\ enable_ht40
    /\ Stable
    /\ Len(accepted) > size
    /\ accepted[Len(accepted)].ht40
    /\ storage_ht40[latest[1] + 1] = OnceHt40(accepted[Len(accepted)])
    /\ \E t \in Threads : /\ th[t].outcome = "rejected"
                          /\ th[t].pc = "loop"
                          /\ th[t].frame.seq > accepted[Len(accepted)].seq

\* C20: between complete onNewCSI calls, a fill level below the capacity means that head
\* equals the fill level, and a fill level above zero means that latest is the slot
\* before head, (head - 1) mod size.
C20_HeadFillLatest ==
    Stable =>
        /\ filllevel < size => head = filllevel
        /\ filllevel > 0 => latest = Some((head + size - 1) % size)

\* C20 witness: a backlog that is partly filled, and the same backlog after it wrapped
C20_Witness ==
    /\ Stable
    /\ size = 3
    /\ \/ (filllevel = 2 /\ head = 2 /\ latest = Some(1))
       \/ (filllevel = 3 /\ head = 1 /\ latest = Some(0) /\ Len(accepted) = 4)

====
